---- MODULE Spec2Model ----
(***************************************************************************)
(* Survey analysis tool: the filter engine of SurveyApp (version with      *)
(* demographic check boxes, ad-hoc filter rows with a negate flag and an   *)
(* AND/OR combine mode) and its question analysis.  The state is the       *)
(* SurveyApp object together with the DOM elements its handlers read back  *)
(* or write: the demographic check boxes, the ad-hoc filter rows, the      *)
(* filterLogic select, the questionSelect select, the chart container and  *)
(* the otherAnswers container.                                             *)
(***************************************************************************)
EXTENDS Integers, Sequences, FiniteSets, TLC

(* ---------------------------- bounds ---------------------------------- *)
\* longest response document that is loaded
MaxResponses == 2
\* most ad-hoc filter rows ever created (caps filters.nextId)
MaxFilters == 2

(* ------------------------- answer values ------------------------------ *)
\* A JavaScript answer value: a string, an array of strings, an object
\* (matrix answer: item -> scale label) or undefined (field absent).
Str(s) == [t |-> "str", s |-> s, a |-> <<>>, m |-> {}]
Arr(a) == [t |-> "arr", s |-> "", a |-> a, m |-> {}]
Obj(m) == [t |-> "obj", s |-> "", a |-> <<>>, m |-> m]
Undef == [t |-> "undef", s |-> "", a |-> <<>>, m |-> {}]

\* JavaScript truthiness of an answer value
Truthy(v) == CASE v.t = "undef" -> FALSE
               [] v.t = "str" -> v.s # ""
               [] OTHER -> TRUE

\* String.prototype.trim over the strings of the model
Trim(s) == CASE s = " " -> ""
             [] s = " scripting " -> "scripting"
             [] OTHER -> s

\* Array.prototype.includes for an array of strings
Includes(arr, x) == \E i \in 1..Len(arr) : arr[i] = x

(* ------------------------------ schema -------------------------------- *)
\* survey-questions-schema.json, cut down to the two demographic questions
\* and one more question per question type; option lists shortened
QuestionOrder == <<"id", "professional_role", "years_experience",
                   "game_engines", "procedural_tools_experience", "tool_view",
                   "node_tool_features", "most_important_problem">>

QuestionType(q) == CASE q = "id" -> "identifier"
                     [] q = "professional_role" -> "single_choice"
                     [] q = "years_experience" -> "single_choice"
                     [] q = "game_engines" -> "multiple_choice"
                     [] q = "tool_view" -> "single_choice"
                     [] q = "procedural_tools_experience" -> "matrix"
                     [] q = "node_tool_features" -> "ranking"
                     [] q = "most_important_problem" -> "open_text"
                     [] OTHER -> "none"

Options(q) == CASE q = "professional_role" -> <<"Level Designer">>
                [] q = "years_experience" -> <<"0-2 years">>
                [] q = "game_engines" -> <<"Unity", "Godot">>
                [] q = "tool_view" -> <<"Essential">>
                [] q = "node_tool_features" ->
                       <<"Visual previews of generation steps",
                         "Limited or no programming required">>
                [] OTHER -> <<>>

\* items and scale of a matrix question
Items(q) == IF q = "procedural_tools_experience"
            THEN <<"Houdini", "Blender Geometry Nodes">> ELSE <<>>
Scale(q) == IF q = "procedural_tools_experience"
            THEN <<"No Experience", "Extensive Experience">> ELSE <<>>

\* schema.questions[key]; undefined for a key the schema does not have
SchemaKeys == {QuestionOrder[i] : i \in 1..Len(QuestionOrder)}
Question(q) == [defined |-> q \in SchemaKeys, type |-> QuestionType(q),
                options |-> Options(q), items |-> Items(q), scale |-> Scale(q)]

DemographicKeys == <<"professional_role", "years_experience">>
DemoKeySet == {DemographicKeys[i] : i \in 1..Len(DemographicKeys)}

(* --------------------------- response store --------------------------- *)
\* one record of survey-responses.json
Answers(role, exp, engines, experience, view, features, problem) ==
    [id |-> 0, professional_role |-> role, years_experience |-> exp,
     game_engines |-> engines, procedural_tools_experience |-> experience,
     tool_view |-> view, node_tool_features |-> features,
     most_important_problem |-> problem]

\* a record that answers only the questions the filters of Survey read
Response(role, exp, engines, view) ==
    Answers(role, exp, engines, Undef, view, Undef, Undef)

\* the survey the response documents are taken from
Survey ==
    << Response(Str("Level Designer"), Str("0-2 years"), Arr(<<"Unity">>), Str("Essential")),
       Response(Str("Freelancer"), Str("0-2 years"), Arr(<<"Unity", "Godot">>), Undef),
       Response(Str("Level Designer"), Str("15 years"), Arr(<<"Godot">>), Str("Essential")),
       Response(Undef, Str("0-2 years"), Arr(<<"Unity">>), Str("Essential")) >>

\* the records of Survey at the positions of `picked', in survey order
RECURSIVE Pick(_, _)
Pick(picked, from) ==
    IF from > Len(Survey) THEN <<>>
    ELSE IF from \in picked THEN <<Survey[from]>> \o Pick(picked, from + 1)
    ELSE Pick(picked, from + 1)

\* a response document: up to MaxResponses records of the survey, numbered
\* by their position in the document
Documents ==
    { LET rows == Pick(picked, 1)
      IN  [i \in 1..Len(rows) |-> [rows[i] EXCEPT !.id = i]]
      : picked \in { p \in SUBSET (1..Len(Survey)) :
                       Cardinality(p) >= 1 /\ Cardinality(p) <= MaxResponses } }

\* the survey the analysed response documents are taken from: answers of
\* every shape the analysis reads (out-of-vocabulary and empty choices, a
\* string for a multiple choice, repeated and undeclared items, undeclared
\* matrix items and labels, padded and blank texts)
AnalysisSurvey ==
    << Answers(Str("Level Designer"), Str("0-2 years"),
               Arr(<<"Unity", "CustomEngine">>),
               Obj({<<"Houdini", "No Experience">>,
                    <<"Blender Geometry Nodes", "Extensive Experience">>}),
               Str("Essential"),
               Arr(<<"Visual previews of generation steps",
                     "Limited or no programming required">>),
               Str(" scripting ")),
       Answers(Str("Level Designer"), Str("0-2 years"),
               Arr(<<"Unity", "Unity">>),
               Obj({<<"Houdini", "Expert">>, <<"Maya", "No Experience">>}),
               Str("Nice to have"),
               Undef,
               Str(" ")),
       Answers(Str("Freelancer"), Str("0-2 years"),
               Str("Godot"),
               Undef,
               Undef,
               Arr(<<"Limited or no programming required">>),
               Undef),
       Answers(Str("Level Designer"), Str("0-2 years"),
               Arr(<<>>),
               Obj({<<"Houdini", "No Experience">>}),
               Str(""),
               Undef,
               Str("Better tooling")) >>

RECURSIVE PickAnalysis(_, _)
PickAnalysis(picked, from) ==
    IF from > Len(AnalysisSurvey) THEN <<>>
    ELSE IF from \in picked
         THEN <<AnalysisSurvey[from]>> \o PickAnalysis(picked, from + 1)
    ELSE PickAnalysis(picked, from + 1)

\* a response document of up to MaxResponses records of AnalysisSurvey
AnalysisDocuments ==
    { LET rows == PickAnalysis(picked, 1)
      IN  [i \in 1..Len(rows) |-> [rows[i] EXCEPT !.id = i]]
      : picked \in { p \in SUBSET (1..Len(AnalysisSurvey)) :
                       Cardinality(p) >= 1 /\ Cardinality(p) <= MaxResponses } }

(* ------------------------------- state -------------------------------- *)
VARIABLES
    served,         \* what the two fetches of loadData come back with
    alerts,         \* the number of alert() dialogs shown so far
    document,       \* the response document the server holds
    data,           \* SurveyApp.data: responses, schema, loaded
    demographics,   \* SurveyApp.filters.demographics: key -> accepted set
    checkboxes,     \* DOM: key -> [options shown, options checked]
    filterElements, \* DOM: the .dynamic-filter rows, in document order
    filterLogic,    \* DOM: value of the filterLogic select
    filteredData,   \* SurveyApp.filters.filteredData (null or an array)
    nextId,         \* SurveyApp.filters.nextId
    questionSelect, \* DOM: value of the questionSelect select
    chart,          \* DOM: what the chart container shows
    otherAnswers,   \* DOM: the list the otherAnswers container shows
    analyzed,       \* history: the argument of the latest analyzeQuestion call
    lastOp          \* history: the page-level handler that ran last

vars == <<served, alerts, document, data, demographics, checkboxes, filterElements,
          filterLogic, filteredData, nextId, questionSelect, chart,
          otherAnswers, analyzed, lastOp>>

\* a value of data.responses / filters.filteredData: null, an array of
\* records, or parsed JSON that is not an array
Null == [isNull |-> TRUE, isArray |-> FALSE, rows |-> <<>>]
Array(rows) == [isNull |-> FALSE, isArray |-> TRUE, rows |-> rows]
NotArray == [isNull |-> FALSE, isArray |-> FALSE, rows |-> <<>>]

\* the outcomes of a fetch: the responses document parses to an array or to
\* an object, the schema document has its questions map or lacks it, or the
\* document cannot be fetched or parsed
BothServed == [responses |-> "array", schema |-> "questions"]
Outcomes == [responses : {"array", "object", "unreachable"},
             schema : {"questions", "noQuestions", "unreachable"}]

(* ------------------------- pure helpers of the code ------------------- *)
\* Array.prototype.filter is SelectSeq throughout

\* the non-schema test of populateDemographicOptions and clearDemographics
IsOtherResponse(r, key) ==
    LET value == r[key]
    IN  /\ Truthy(value)
        /\ value.t = "str"
        /\ Trim(value.s) # ""
        /\ ~Includes(Options(key), value.s)

otherCount(responses, key) ==
    Len(SelectSeq(responses, LAMBDA r : IsOtherResponse(r, key)))

\* allOptions that offers "Other" whatever the responses hold
allOptionsAlways(responses, key) ==
    {Options(key)[i] : i \in 1..Len(Options(key))} \cup {"Other"}

\* allOptions of populateDemographicOptions, as the set the Set is built from
allOptions(responses, key) ==
    {Options(key)[i] : i \in 1..Len(Options(key))}
        \cup (IF otherCount(responses, key) > 0 THEN {"Other"} ELSE {})

\* getActiveAdvancedFilters that asks for a question only
getActiveAdvancedFiltersQuestionOnly(elements) ==
    SelectSeq(elements, LAMBDA f : f.question # "")

\* getActiveAdvancedFilters: rows with both a question and a value chosen
getActiveAdvancedFilters(elements) ==
    SelectSeq(elements, LAMBDA f : f.question # "" /\ f.value # "")

\* FilterMatch with the negate flag never read
FilterMatchNoNegate(response, filter) ==
    LET responseValue == response[filter.question]
    IN  IF responseValue.t = "arr"
        THEN Includes(responseValue.a, filter.value)
        ELSE responseValue.t = "str" /\ responseValue.s = filter.value

\* FilterMatch that compares with == : an object answer is coerced to the
\* string "[object Object]" before it is compared
FilterMatchLoose(response, filter) ==
    LET responseValue == response[filter.question]
        match == IF responseValue.t = "arr"
                 THEN Includes(responseValue.a, filter.value)
                 ELSE \/ responseValue.t = "str" /\ responseValue.s = filter.value
                      \/ responseValue.t = "obj" /\ filter.value = "[object Object]"
    IN  IF filter.negate THEN ~match ELSE match

\* the match of one ad-hoc filter against one response
FilterMatch(response, filter) ==
    LET responseValue == response[filter.question]
        match == IF responseValue.t = "arr"
                 THEN Includes(responseValue.a, filter.value)
                 ELSE responseValue.t = "str" /\ responseValue.s = filter.value
    IN  IF filter.negate THEN ~match ELSE match

\* SomeFilter whose callback returns the match without the negation
SomeFilterNoNegate(active, response) ==
    \E i \in 1..Len(active) : FilterMatchNoNegate(response, active[i])

\* EveryFilter whose callback returns the match without the negation
EveryFilterNoNegate(active, response) ==
    \A i \in 1..Len(active) : FilterMatchNoNegate(response, active[i])

\* Array.prototype.some / every over the active filters
SomeFilter(active, response) ==
    \E i \in 1..Len(active) : FilterMatch(response, active[i])
EveryFilter(active, response) ==
    \A i \in 1..Len(active) : FilterMatch(response, active[i])

\* the demographic stage of applyAllFilters
roleMatch(response, demo) ==
    LET roleValue == response["professional_role"]
    IN  IF Truthy(roleValue)
        THEN IF Includes(Options("professional_role"), roleValue.s)
             THEN roleValue.s \in demo["professional_role"]
             ELSE "Other" \in demo["professional_role"]
        ELSE FALSE

expMatch(response, demo) ==
    LET expValue == response["years_experience"]
    IN  expValue.t = "str" /\ expValue.s \in demo["years_experience"]

DemographicStage(responses, demo) ==
    SelectSeq(responses, LAMBDA r : roleMatch(r, demo) /\ expMatch(r, demo))

\* AdvancedStage whose OR branch appends the matches of each filter in turn
RECURSIVE MatchesFrom(_, _, _)
MatchesFrom(rows, active, i) ==
    IF i > Len(active) THEN <<>>
    ELSE SelectSeq(rows, LAMBDA r : FilterMatch(r, active[i]))
            \o MatchesFrom(rows, active, i + 1)
AdvancedStageConcat(rows, elements, logic) ==
    LET active == getActiveAdvancedFilters(elements)
    IN  IF Len(active) > 0
        THEN IF logic = "OR"
             THEN MatchesFrom(rows, active, 1)
             ELSE SelectSeq(rows, LAMBDA r : EveryFilter(active, r))
        ELSE rows

\* AdvancedStage without the test for an empty list of active filters
AdvancedStageNoGuard(rows, elements, logic) ==
    LET active == getActiveAdvancedFilters(elements)
    IN  IF logic = "OR"
        THEN SelectSeq(rows, LAMBDA r : SomeFilter(active, r))
        ELSE SelectSeq(rows, LAMBDA r : EveryFilter(active, r))

\* the ad-hoc stage of applyAllFilters
AdvancedStage(rows, elements, logic) ==
    LET active == getActiveAdvancedFilters(elements)
    IN  IF Len(active) > 0
        THEN IF logic = "OR"
             THEN SelectSeq(rows, LAMBDA r : SomeFilter(active, r))
             ELSE SelectSeq(rows, LAMBDA r : EveryFilter(active, r))
        ELSE rows

\* the array applyAllFilters stores in filters.filteredData
ComputeFiltered(responses, demo, elements, logic) ==
    AdvancedStage(DemographicStage(responses, demo), elements, logic)

\* applyAllFilters, given the filter state its caller has just set
applyAllFilters(demo, elements, logic) ==
    IF data.responses.isNull
    THEN filteredData
    ELSE Array(ComputeFiltered(data.responses.rows, demo, elements, logic))

\* getCurrentData
CurrentDataOf(fd, d) ==
    IF ~fd.isNull THEN fd.rows
    ELSE IF ~d.responses.isNull THEN d.responses.rows ELSE <<>>
getCurrentData == CurrentDataOf(filteredData, data)

(* ----------------------------- the analysis --------------------------- *)
\* what the chart container shows: nothing (the empty canvas), a pie, bar or
\* stacked bar chart, or the list of text responses.  `counts' is the
\* counts object as the list of its entries in insertion order, `table' the
\* matrixData object, `total' the totalResponses argument.
NoChart == [kind |-> "none", counts |-> <<>>, table |-> <<>>,
            texts |-> <<>>, total |-> 0]
Cleared == [chart |-> NoChart, otherAnswers |-> <<>>]

\* object[key] += 1 for a key the object has, object[key] = 1 otherwise
increment(object, key) ==
    IF \E i \in 1..Len(object) : object[i].label = key
    THEN [i \in 1..Len(object) |->
            IF object[i].label = key
            THEN [object[i] EXCEPT !.value = @ + 1] ELSE object[i]]
    ELSE Append(object, [label |-> key, value |-> 1])

\* object[key] = value
assign(object, key, value) ==
    IF \E i \in 1..Len(object) : object[i].label = key
    THEN [i \in 1..Len(object) |->
            IF object[i].label = key
            THEN [object[i] EXCEPT !.value = value] ELSE object[i]]
    ELSE Append(object, [label |-> key, value |-> value])

\* counts with every declared option at 0
zeroCounts(options) ==
    [i \in 1..Len(options) |-> [label |-> options[i], value |-> 0]]

\* options.includes(value) for an answer value: only a string can be equal
\* to a declared option
isOtherAnswer(options, value) ==
    ~(value.t = "str" /\ Includes(options, value.s))

\* the body of the counting loops: an answer that is no declared option is
\* pushed on otherAnswers, any other answer is counted under its own label
countAnswer(acc, options, value) ==
    IF isOtherAnswer(options, value)
    THEN [acc EXCEPT !.otherAnswers = Append(@, value)]
    ELSE [acc EXCEPT !.counts = increment(@, value.s)]

RECURSIVE forEachAnswer(_, _, _, _)
forEachAnswer(values, options, i, acc) ==
    IF i > Len(values) THEN acc
    ELSE forEachAnswer(values, options, i + 1, countAnswer(acc, options, values[i]))

\* counts['Other'] = otherAnswers.length when there are other answers
withOther(acc) ==
    IF Len(acc.otherAnswers) > 0
    THEN assign(acc.counts, "Other", Len(acc.otherAnswers))
    ELSE acc.counts

\* currentData.map(r => r[questionKey])
answersOf(currentData, questionKey) ==
    [i \in 1..Len(currentData) |-> currentData[i][questionKey]]

\* analyzeSingleChoice that counts the empty answers as well
analyzeSingleChoiceNoFilter(questionKey, question, currentData) ==
    LET responseData == answersOf(currentData, questionKey)
        acc == forEachAnswer(responseData, question.options, 1,
                   [counts |-> zeroCounts(question.options), otherAnswers |-> <<>>])
    IN  [chart |-> [kind |-> "pie", counts |-> withOther(acc), table |-> <<>>,
                    texts |-> <<>>, total |-> Len(currentData)],
         otherAnswers |-> acc.otherAnswers]

\* analyzeSingleChoice: createPieChart(title, counts, currentData.length) and
\* showOtherAnswers(otherAnswers); every single-choice question of the
\* schema declares options
analyzeSingleChoice(questionKey, question, currentData) ==
    LET responseData == SelectSeq(answersOf(currentData, questionKey), Truthy)
        acc == forEachAnswer(responseData, question.options, 1,
                   [counts |-> zeroCounts(question.options), otherAnswers |-> <<>>])
    IN  [chart |-> [kind |-> "pie", counts |-> withOther(acc), table |-> <<>>,
                    texts |-> <<>>, total |-> Len(currentData)],
         otherAnswers |-> acc.otherAnswers]

\* the items one answer to a multiple-choice question selects: the items of
\* an array, a string itself, nothing for any other value
selected(value) ==
    CASE value.t = "arr" -> [j \in 1..Len(value.a) |-> Str(value.a[j])]
      [] value.t = "str" -> <<value>>
      [] OTHER -> <<>>

RECURSIVE forEachResponse(_, _, _, _, _)
forEachResponse(currentData, questionKey, options, i, acc) ==
    IF i > Len(currentData) THEN acc
    ELSE LET value == currentData[i][questionKey]
         IN  forEachResponse(currentData, questionKey, options, i + 1,
                 IF Truthy(value)
                 THEN forEachAnswer(selected(value), options, 1, acc)
                 ELSE acc)

\* analyzeMultipleChoice that never writes counts['Other']
analyzeMultipleChoiceNoOther(questionKey, question, currentData) ==
    LET acc == forEachResponse(currentData, questionKey, question.options, 1,
                   [counts |-> zeroCounts(question.options), otherAnswers |-> <<>>])
    IN  [chart |-> [kind |-> "bar", counts |-> acc.counts, table |-> <<>>,
                    texts |-> <<>>, total |-> Len(currentData)],
         otherAnswers |-> acc.otherAnswers]

\* analyzeMultipleChoice whose counts start empty
analyzeMultipleChoiceNoZero(questionKey, question, currentData) ==
    LET acc == forEachResponse(currentData, questionKey, question.options, 1,
                   [counts |-> <<>>, otherAnswers |-> <<>>])
    IN  [chart |-> [kind |-> "bar", counts |-> withOther(acc), table |-> <<>>,
                    texts |-> <<>>, total |-> Len(currentData)],
         otherAnswers |-> acc.otherAnswers]

\* analyzeMultipleChoice: createBarChart(title, counts, currentData.length)
\* and showOtherAnswers(otherAnswers)
analyzeMultipleChoice(questionKey, question, currentData) ==
    LET acc == forEachResponse(currentData, questionKey, question.options, 1,
                   [counts |-> zeroCounts(question.options), otherAnswers |-> <<>>])
    IN  [chart |-> [kind |-> "bar", counts |-> withOther(acc), table |-> <<>>,
                    texts |-> <<>>, total |-> Len(currentData)],
         otherAnswers |-> acc.otherAnswers]

\* matrixData with a row per item and a 0 per scale label
zeroMatrix(items, scale) ==
    [i \in 1..Len(items) |-> [item |-> items[i], cells |-> zeroCounts(scale)]]

\* matrixData[item][value]++
incrementCell(matrixData, item, value) ==
    [i \in 1..Len(matrixData) |->
        IF matrixData[i].item = item
        THEN [matrixData[i] EXCEPT !.cells = increment(@, value)]
        ELSE matrixData[i]]

\* Object.entries of a matrix answer; the entries of an array have its
\* indices as keys, which are no items, and a string is no object
entriesOf(value) == IF value.t = "obj" THEN value.m ELSE {}

\* forEachEntry that skips the test of the label against the scale
RECURSIVE forEachEntryAnyLabel(_, _, _, _)
forEachEntryAnyLabel(entries, items, scale, matrixData) ==
    IF entries = {} THEN matrixData
    ELSE LET entry == CHOOSE e \in entries : TRUE
         IN  forEachEntryAnyLabel(entries \ {entry}, items, scale,
                 IF Includes(items, entry[1])
                 THEN incrementCell(matrixData, entry[1], entry[2])
                 ELSE matrixData)

\* the loop over the entries of one matrix answer
RECURSIVE forEachEntry(_, _, _, _)
forEachEntry(entries, items, scale, matrixData) ==
    IF entries = {} THEN matrixData
    ELSE LET entry == CHOOSE e \in entries : TRUE
         IN  forEachEntry(entries \ {entry}, items, scale,
                 IF Includes(items, entry[1]) /\ Includes(scale, entry[2])
                 THEN incrementCell(matrixData, entry[1], entry[2])
                 ELSE matrixData)

RECURSIVE forEachMatrix(_, _, _, _, _, _)
forEachMatrix(currentData, questionKey, items, scale, i, matrixData) ==
    IF i > Len(currentData) THEN matrixData
    ELSE forEachMatrix(currentData, questionKey, items, scale, i + 1,
             forEachEntry(entriesOf(currentData[i][questionKey]), items, scale,
                          matrixData))

\* analyzeMatrix: createStackedBarChart(title, matrixData, scale,
\* currentData.length) and clearOtherAnswers
analyzeMatrix(questionKey, question, currentData) ==
    IF Len(question.items) = 0 \/ Len(question.scale) = 0
    THEN Cleared
    ELSE [chart |-> [kind |-> "stacked", counts |-> <<>>,
                     table |-> forEachMatrix(currentData, questionKey,
                                   question.items, question.scale, 1,
                                   zeroMatrix(question.items, question.scale)),
                     texts |-> <<>>, total |-> Len(currentData)],
          otherAnswers |-> <<>>]

\* the answers analyzeOpenText keeps
isText(value) == Truthy(value) /\ value.t = "str" /\ Trim(value.s) # ""

\* analyzeOpenText that pushes the answer as it is
analyzeOpenTextNoTrim(questionKey, question, currentData) ==
    LET kept == SelectSeq(answersOf(currentData, questionKey), isText)
    IN  [chart |-> [kind |-> "text", counts |-> <<>>, table |-> <<>>,
                    texts |-> [i \in 1..Len(kept) |-> kept[i].s],
                    total |-> Len(currentData)],
         otherAnswers |-> <<>>]

\* analyzeOpenText: showTextResponses(title, responses, currentData.length)
analyzeOpenText(questionKey, question, currentData) ==
    LET kept == SelectSeq(answersOf(currentData, questionKey), isText)
    IN  [chart |-> [kind |-> "text", counts |-> <<>>, table |-> <<>>,
                    texts |-> [i \in 1..Len(kept) |-> Trim(kept[i].s)],
                    total |-> Len(currentData)],
         otherAnswers |-> <<>>]

\* the positions (rank, response) at which the responses rank an option
rankPositions(currentData, questionKey, option) ==
    { <<j, i>> \in (1..2) \X (1..Len(currentData)) :
          LET value == currentData[i][questionKey]
          IN  value.t = "arr" /\ j <= Len(value.a) /\ value.a[j] = option }

\* the sum of the ranks of a set of positions
RECURSIVE rankSum(_)
rankSum(positions) ==
    IF positions = {} THEN 0
    ELSE LET p == CHOOSE x \in positions : TRUE
         IN  p[1] + rankSum(positions \ {p})

\* a ranking chart: per option the mean rank as the pair of the sum of the
\* ranks and the number of responses that rank the option, which is 0 for
\* an unranked option
rankingChart(questionKey, question, currentData) ==
    [chart |-> [kind |-> "ranking",
                counts |-> [i \in 1..Len(question.options) |->
                    LET positions == rankPositions(currentData, questionKey,
                                                   question.options[i])
                    IN  [label |-> question.options[i],
                         value |-> <<rankSum(positions), Cardinality(positions)>>]],
                table |-> <<>>, texts |-> <<>>, total |-> Len(currentData)],
     otherAnswers |-> <<>>]

\* analyzeQuestion with a case for ranking questions
analyzeQuestionRanking(questionKey, currentData) ==
    IF questionKey = "" \/ ~data.loaded THEN Cleared
    ELSE LET question == Question(questionKey)
         IN  IF ~question.defined THEN Cleared
             ELSE CASE question.type = "single_choice" ->
                         analyzeSingleChoice(questionKey, question, currentData)
                    [] question.type = "multiple_choice" ->
                         analyzeMultipleChoice(questionKey, question, currentData)
                    [] question.type = "matrix" ->
                         analyzeMatrix(questionKey, question, currentData)
                    [] question.type = "open_text" ->
                         analyzeOpenText(questionKey, question, currentData)
                    [] question.type = "ranking" ->
                         rankingChart(questionKey, question, currentData)
                    [] OTHER -> Cleared

\* analyzeQuestion that returns before it clears the chart and the other
\* answers
analyzeQuestionNoClear(questionKey, currentData) ==
    LET shown == [chart |-> chart, otherAnswers |-> otherAnswers]
    IN  IF questionKey = "" \/ ~data.loaded THEN shown
        ELSE LET question == Question(questionKey)
             IN  IF ~question.defined THEN shown
                 ELSE CASE question.type = "single_choice" ->
                             analyzeSingleChoice(questionKey, question, currentData)
                        [] question.type = "multiple_choice" ->
                             analyzeMultipleChoice(questionKey, question, currentData)
                        [] question.type = "matrix" ->
                             analyzeMatrix(questionKey, question, currentData)
                        [] question.type = "open_text" ->
                             analyzeOpenText(questionKey, question, currentData)
                        [] OTHER -> shown

\* analyzeQuestion: what the chart container and the otherAnswers container
\* show when it returns; it clears both first
analyzeQuestion(questionKey, currentData) ==
    IF questionKey = "" \/ ~data.loaded THEN Cleared
    ELSE LET question == Question(questionKey)
         IN  IF ~question.defined THEN Cleared
             ELSE CASE question.type = "single_choice" ->
                         analyzeSingleChoice(questionKey, question, currentData)
                    [] question.type = "multiple_choice" ->
                         analyzeMultipleChoice(questionKey, question, currentData)
                    [] question.type = "matrix" ->
                         analyzeMatrix(questionKey, question, currentData)
                    [] question.type = "open_text" ->
                         analyzeOpenText(questionKey, question, currentData)
                    [] OTHER -> Cleared

\* the end of applyAllFilters: with the filtered data stored, the question
\* the questionSelect select shows is analysed again
reanalyze(fd) ==
    IF data.responses.isNull \/ questionSelect = ""
    THEN UNCHANGED <<chart, otherAnswers, analyzed>>
    ELSE LET shown == analyzeQuestion(questionSelect, CurrentDataOf(fd, data))
         IN  /\ chart' = shown.chart
             /\ otherAnswers' = shown.otherAnswers
             /\ analyzed' = questionSelect

\* populateQuestionDropdown: the questions the questionSelect select offers
AnalysisQuestions ==
    SelectSeq(QuestionOrder,
           LAMBDA key : key # "id" /\ QuestionType(key) \in
               {"single_choice", "multiple_choice", "matrix", "open_text"})

(* ------------------------------- Init --------------------------------- *)
Init ==
    /\ served = BothServed
    /\ alerts = 0
    /\ document \in Documents
    /\ data = [responses |-> Null, schema |-> "null", loaded |-> FALSE]
    /\ demographics = [k \in DemoKeySet |-> {}]
    /\ checkboxes = [k \in DemoKeySet |-> [shown |-> {}, checked |-> {}]]
    /\ filterElements = <<>>
    /\ filterLogic = "AND"
    /\ filteredData = Null
    /\ nextId = 1
    /\ questionSelect = ""
    /\ chart = NoChart
    /\ otherAnswers = <<>>
    /\ analyzed = ""
    /\ lastOp = "init"

(* ------------------------------ actions ------------------------------- *)
\* the handlers of page-level controls that lastOp tells apart; a change of
\* one check box or of one filter row is an "edit"
PageLevel == {"loadData", "toggleAllDemographic", "filterLogicChange",
              "analyzeQuestion", "removeAdvancedFilter",
              "clearAllAdvancedFilters", "clearDemographics"}
Record(name) ==
    lastOp' = IF name \in PageLevel THEN name ELSE "edit"

\* validateData: does it return (TRUE) or throw
validateData(d) ==
    d.responses.isArray /\ d.schema = "questions"

\* loadData, called once by init(). A fetch that fails, a status that is not
\* ok or a body that does not parse throws before anything is stored.
\* Otherwise both documents are stored and loaded is set, then validateData
\* runs; when it returns, showDataSummary -> populateQuestionDropdown (the
\* select is rebuilt and shows its placeholder), initializeDemographics ->
\* populateDemographicOptions. Whatever is thrown is caught: one alert.
loadData ==
    /\ ~data.loaded /\ alerts = 0
    /\ Record("loadData")
    /\ IF served.responses = "unreachable" \/ served.schema = "unreachable"
       THEN /\ alerts' = alerts + 1
            /\ UNCHANGED <<data, demographics, checkboxes, questionSelect>>
       ELSE LET stored == [responses |-> IF served.responses = "array"
                                         THEN Array(document) ELSE NotArray,
                           schema |-> served.schema,
                           loaded |-> TRUE]
            IN  /\ data' = stored
                /\ IF validateData(stored)
                   THEN /\ demographics' =
                              [k \in DemoKeySet |-> allOptions(document, k)]
                        /\ checkboxes' = [k \in DemoKeySet |->
                              [shown |-> allOptions(document, k),
                               checked |-> allOptions(document, k)]]
                        /\ questionSelect' = ""
                        /\ UNCHANGED alerts
                   ELSE /\ alerts' = alerts + 1
                        /\ UNCHANGED <<demographics, checkboxes, questionSelect>>
    /\ UNCHANGED <<served, document, filterElements, filterLogic, filteredData,
                   nextId, chart, otherAnswers, analyzed>>

\* the accepted sets after onDemographicChange's add/delete
setAccepted(demo, demographicKey, option, isChecked) ==
    [demo EXCEPT ![demographicKey] =
        IF isChecked THEN @ \cup {option} ELSE @ \ {option}]

\* onDemographicChange whose applyAllFilters writes the subset back into
\* data.responses
onDemographicChangeInPlace(demographicKey, option, isChecked) ==
    /\ option \in checkboxes[demographicKey].shown
    /\ isChecked = (option \notin checkboxes[demographicKey].checked)
    /\ checkboxes' = [checkboxes EXCEPT ![demographicKey].checked =
                        IF isChecked THEN @ \cup {option} ELSE @ \ {option}]
    /\ demographics' = setAccepted(demographics, demographicKey, option, isChecked)
    /\ filteredData' = applyAllFilters(demographics', filterElements, filterLogic)
    /\ data' = [data EXCEPT !.responses = filteredData']
    /\ Record("onDemographicChange")
    /\ reanalyze(filteredData')
    /\ UNCHANGED <<served, alerts, document, filterElements, filterLogic, nextId,
                   questionSelect>>

\* change listener of a demographic check box: the browser has flipped the
\* box, the handler updates the accepted set and applies the filters
onDemographicChange(demographicKey, option, isChecked) ==
    /\ option \in checkboxes[demographicKey].shown
    /\ isChecked = (option \notin checkboxes[demographicKey].checked)
    /\ checkboxes' = [checkboxes EXCEPT ![demographicKey].checked =
                        IF isChecked THEN @ \cup {option} ELSE @ \ {option}]
    /\ demographics' = setAccepted(demographics, demographicKey, option, isChecked)
    /\ filteredData' = applyAllFilters(demographics', filterElements, filterLogic)
    /\ Record("onDemographicChange")
    /\ reanalyze(filteredData')
    /\ UNCHANGED <<served, alerts, document, data, filterElements, filterLogic, nextId,
                   questionSelect>>

\* toggleAllDemographic that unchecks all as soon as one box is checked
toggleAllDemographicSome(demographicKey) ==
    LET shown == checkboxes[demographicKey].shown
        allChecked == \E cb \in shown : cb \in checkboxes[demographicKey].checked
        newState == ~allChecked
    IN  /\ checkboxes' = [checkboxes EXCEPT ![demographicKey].checked =
                            IF newState THEN shown ELSE {}]
        /\ demographics' = [demographics EXCEPT ![demographicKey] =
                            IF newState THEN @ \cup shown ELSE @ \ shown]
        /\ filteredData' = applyAllFilters(demographics', filterElements, filterLogic)
        /\ Record("toggleAllDemographic")
        /\ reanalyze(filteredData')
        /\ UNCHANGED <<served, alerts, document, data, filterElements, filterLogic, nextId,
                       questionSelect>>

toggleAllDemographic(demographicKey) ==
    LET shown == checkboxes[demographicKey].shown
        allChecked == \A cb \in shown : cb \in checkboxes[demographicKey].checked
        newState == ~allChecked
    IN  /\ checkboxes' = [checkboxes EXCEPT ![demographicKey].checked =
                            IF newState THEN shown ELSE {}]
        /\ demographics' = [demographics EXCEPT ![demographicKey] =
                            IF newState THEN @ \cup shown ELSE @ \ shown]
        /\ filteredData' = applyAllFilters(demographics', filterElements, filterLogic)
        /\ Record("toggleAllDemographic")
        /\ reanalyze(filteredData')
        /\ UNCHANGED <<served, alerts, document, data, filterElements, filterLogic, nextId,
                       questionSelect>>

\* clearDemographics that resets to the schema's options, never to "Other"
clearDemographicsOptionsOnly ==
    /\ data.loaded
    /\ demographics' = [k \in DemoKeySet |->
                           {Options(k)[i] : i \in 1..Len(Options(k))}]
    /\ checkboxes' = [k \in DemoKeySet |->
                        [checkboxes[k] EXCEPT !.checked = checkboxes[k].shown]]
    /\ filteredData' = applyAllFilters(demographics', filterElements, filterLogic)
    /\ Record("clearDemographics")
    /\ reanalyze(filteredData')
    /\ UNCHANGED <<served, alerts, document, data, filterElements, filterLogic, nextId,
                   questionSelect>>

\* before the schema is there the first statement throws and nothing changes
clearDemographics ==
    /\ data.loaded
    /\ demographics' = [k \in DemoKeySet |-> allOptions(data.responses.rows, k)]
    /\ checkboxes' = [k \in DemoKeySet |->
                        [checkboxes[k] EXCEPT !.checked = checkboxes[k].shown]]
    /\ filteredData' = applyAllFilters(demographics', filterElements, filterLogic)
    /\ Record("clearDemographics")
    /\ reanalyze(filteredData')
    /\ UNCHANGED <<served, alerts, document, data, filterElements, filterLogic, nextId,
                   questionSelect>>

\* FilterQuestions that skips the identifier and open text only
FilterQuestionsDemographic ==
    SelectSeq(QuestionOrder,
           LAMBDA key : ~(key = "id" \/ QuestionType(key) = "open_text"))

\* populateFilterQuestionOptions: the questions a filter row offers
FilterQuestions ==
    SelectSeq(QuestionOrder,
           LAMBDA key : ~(key = "id" \/ QuestionType(key) = "open_text"
                          \/ key = "professional_role" \/ key = "years_experience"))

\* the new row has no question and no value; the filters are not re-applied
addAdvancedFilter ==
    /\ nextId <= MaxFilters
    /\ nextId' = nextId + 1
    /\ filterElements' = Append(filterElements,
          [id |-> nextId, question |-> "", value |-> "", negate |-> FALSE,
           questions |-> IF data.loaded THEN FilterQuestions ELSE <<>>,
           options |-> {}])
    /\ Record("addAdvancedFilter")
    /\ UNCHANGED <<served, alerts, document, data, demographics, checkboxes, filterLogic, filteredData,
                   questionSelect, chart, otherAnswers, analyzed>>

RowIds == {filterElements[i].id : i \in 1..Len(filterElements)}
RowIndex(filterId) == CHOOSE i \in 1..Len(filterElements) : filterElements[i].id = filterId

\* the values onAdvancedFilterQuestionChange offers for a question
ValuesOf(rows, questionKey) ==
    UNION { LET value == rows[i][questionKey]
            IN  CASE value.t = "undef" -> {}
                  [] value.t = "str" -> IF value.s # "" THEN {value.s} ELSE {}
                  [] value.t = "arr" -> {value.a[j] : j \in 1..Len(value.a)}
                  [] OTHER -> {"[object Object]"}
            : i \in 1..Len(rows) }

\* change listener of a row's question select
onAdvancedFilterQuestionChange(filterId, questionKey) ==
    /\ filterId \in RowIds
    /\ LET i == RowIndex(filterId)
           row == filterElements[i]
       IN  /\ questionKey \in {""} \cup {row.questions[j] : j \in 1..Len(row.questions)}
           /\ questionKey # row.question
           /\ filterElements' = [filterElements EXCEPT ![i] =
                 [row EXCEPT !.question = questionKey,
                             !.value = "",
                             !.options = IF questionKey = "" THEN {}
                                         ELSE ValuesOf(getCurrentData, questionKey)]]
    /\ filteredData' = applyAllFilters(demographics, filterElements', filterLogic)
    /\ Record("onAdvancedFilterQuestionChange")
    /\ reanalyze(filteredData')
    /\ UNCHANGED <<served, alerts, document, data, demographics, checkboxes, filterLogic, nextId,
                   questionSelect>>

\* change listener of a row's value select
valueChange(filterId, value) ==
    /\ filterId \in RowIds
    /\ LET i == RowIndex(filterId)
           row == filterElements[i]
       IN  /\ value \in {""} \cup row.options
           /\ value # row.value
           /\ filterElements' = [filterElements EXCEPT ![i].value = value]
    /\ filteredData' = applyAllFilters(demographics, filterElements', filterLogic)
    /\ Record("valueChange")
    /\ reanalyze(filteredData')
    /\ UNCHANGED <<served, alerts, document, data, demographics, checkboxes, filterLogic, nextId,
                   questionSelect>>

\* the rows after the browser has flipped the negate box of row i
flipNegate(elements, i) == [elements EXCEPT ![i].negate = ~@]

\* change listener of a row's negate check box
negateChange(filterId) ==
    /\ filterId \in RowIds
    /\ filterElements' = flipNegate(filterElements, RowIndex(filterId))
    /\ Record("negateChange")
    /\ filteredData' = applyAllFilters(demographics, filterElements', filterLogic)
    /\ reanalyze(filteredData')
    /\ UNCHANGED <<served, alerts, document, data, demographics, checkboxes, filterLogic, nextId,
                   questionSelect>>

\* afterRemove without the test of the element found
afterRemoveNoTest(filterId) ==
    LET rows == SelectSeq(filterElements, LAMBDA f : f.id # filterId)
    IN  [filterElements |-> rows,
         filteredData |-> applyAllFilters(demographics, rows, filterLogic),
         applied |-> TRUE]

\* removeAdvancedFilter: the rows and the filtered subset it leaves, and
\* whether it has called applyAllFilters; querySelector finds no element for
\* an id that was never given or whose row is gone, and nothing is done
afterRemove(filterId) ==
    IF filterId \in RowIds
    THEN LET rows == SelectSeq(filterElements, LAMBDA f : f.id # filterId)
         IN  [filterElements |-> rows,
              filteredData |-> applyAllFilters(demographics, rows, filterLogic),
              applied |-> TRUE]
    ELSE [filterElements |-> filterElements,
          filteredData |-> filteredData,
          applied |-> FALSE]

removeAdvancedFilter(filterId) ==
    LET after == afterRemove(filterId)
    IN  /\ filterElements' = after.filterElements
        /\ filteredData' = after.filteredData
        /\ IF after.applied
           THEN reanalyze(filteredData')
           ELSE UNCHANGED <<chart, otherAnswers, analyzed>>
        /\ Record("removeAdvancedFilter")
        /\ UNCHANGED <<served, alerts, document, data, demographics, checkboxes,
                       filterLogic, nextId, questionSelect>>

clearAllAdvancedFilters ==
    /\ filterElements' = <<>>
    /\ filteredData' = applyAllFilters(demographics, filterElements', filterLogic)
    /\ Record("clearAllAdvancedFilters")
    /\ reanalyze(filteredData')
    /\ UNCHANGED <<served, alerts, document, data, demographics, checkboxes, filterLogic, nextId,
                   questionSelect>>

\* change listener of the filterLogic select
filterLogicChange(mode) ==
    /\ mode # filterLogic
    /\ filterLogic' = mode
    /\ filteredData' = applyAllFilters(demographics, filterElements, mode)
    /\ Record("filterLogicChange")
    /\ reanalyze(filteredData')
    /\ UNCHANGED <<served, alerts, document, data, demographics, checkboxes, filterElements, nextId,
                   questionSelect>>

\* change listener of the questionSelect select
questionSelectChange(questionKey) ==
    /\ questionKey \in {""} \cup
          (IF data.loaded
           THEN {AnalysisQuestions[i] : i \in 1..Len(AnalysisQuestions)} ELSE {})
    /\ questionKey # questionSelect
    /\ questionSelect' = questionKey
    /\ LET shown == analyzeQuestion(questionKey, getCurrentData)
       IN  /\ chart' = shown.chart
           /\ otherAnswers' = shown.otherAnswers
    /\ analyzed' = questionKey
    /\ Record("questionSelectChange")
    /\ UNCHANGED <<served, alerts, document, data, demographics, checkboxes, filterElements,
                   filterLogic, filteredData, nextId>>

\* a call of SurveyApp.analyzeQuestion with any key
callAnalyzeQuestion(questionKey) ==
    /\ LET shown == analyzeQuestion(questionKey, getCurrentData)
       IN  /\ chart' = shown.chart
           /\ otherAnswers' = shown.otherAnswers
    /\ analyzed' = questionKey
    /\ Record("analyzeQuestion")
    /\ UNCHANGED <<served, alerts, document, data, demographics, checkboxes, filterElements,
                   filterLogic, filteredData, nextId, questionSelect>>

\* a session in which the documents arrive before the first user event:
\* loadData, then the events of the page's controls in any order
Next ==
    \/ loadData
    \/ \E k \in DemoKeySet, o \in {"Level Designer", "0-2 years", "Other"},
          c \in BOOLEAN : data.loaded /\ onDemographicChange(k, o, c)
    \/ \E k \in DemoKeySet : data.loaded /\ toggleAllDemographic(k)
    \/ data.loaded /\ clearDemographics
    \/ data.loaded /\ addAdvancedFilter
    \/ \E id \in 1..MaxFilters, q \in {"", "game_engines", "tool_view"} :
          data.loaded /\ onAdvancedFilterQuestionChange(id, q)
    \/ \E id \in 1..MaxFilters, v \in {"", "Unity", "Godot", "Essential"} :
          data.loaded /\ valueChange(id, v)
    \/ \E id \in 1..MaxFilters : data.loaded /\ negateChange(id)
    \/ \E id \in 1..MaxFilters : data.loaded /\ removeAdvancedFilter(id)
    \/ data.loaded /\ clearAllAdvancedFilters
    \/ \E m \in {"AND", "OR"} : data.loaded /\ filterLogicChange(m)

Spec == Init /\ [][Next]_vars

(* ------------------------- analysis sessions -------------------------- *)
\* the page before loadData, holding a document of the analysed survey
AnalysisInit ==
    /\ served = BothServed
    /\ alerts = 0
    /\ document \in AnalysisDocuments
    /\ data = [responses |-> Null, schema |-> "null", loaded |-> FALSE]
    /\ demographics = [k \in DemoKeySet |-> {}]
    /\ checkboxes = [k \in DemoKeySet |-> [shown |-> {}, checked |-> {}]]
    /\ filterElements = <<>>
    /\ filterLogic = "AND"
    /\ filteredData = Null
    /\ nextId = 1
    /\ questionSelect = ""
    /\ chart = NoChart
    /\ otherAnswers = <<>>
    /\ analyzed = ""
    /\ lastOp = "init"

\* a session of question analysis: loadData, then changes of the
\* questionSelect select, calls of analyzeQuestion and changes of the
\* demographic check boxes in any order
AnalysisNext ==
    \/ loadData
    \/ \E q \in {""} \cup SchemaKeys : data.loaded /\ questionSelectChange(q)
    \/ \E q \in SchemaKeys \cup {"missing_question"} :
          data.loaded /\ callAnalyzeQuestion(q)
    \/ \E k \in DemoKeySet, o \in {"Level Designer", "0-2 years", "Other"},
          c \in BOOLEAN : data.loaded /\ onDemographicChange(k, o, c)
    \/ \E k \in DemoKeySet : data.loaded /\ toggleAllDemographic(k)

SpecAnalysis == AnalysisInit /\ [][AnalysisNext]_vars

(* --------------------------- the page at startup ---------------------- *)
\* a call of SurveyApp.applyAllFilters
callApplyAllFilters ==
    /\ filteredData' = applyAllFilters(demographics, filterElements, filterLogic)
    /\ reanalyze(filteredData')
    /\ Record("applyAllFilters")
    /\ UNCHANGED <<served, alerts, document, data, demographics, checkboxes, filterElements,
                   filterLogic, nextId, questionSelect>>

\* init() registers the listeners before it awaits loadData: while the two
\* fetches are pending the controls of the page already answer, and the
\* session runs until the documents have arrived
StartupNext ==
    \/ loadData
    \/ ~data.loaded /\ addAdvancedFilter
    \/ \E k \in DemoKeySet : ~data.loaded /\ toggleAllDemographic(k)
    \/ \E m \in {"AND", "OR"} : ~data.loaded /\ filterLogicChange(m)
    \/ ~data.loaded /\ callApplyAllFilters
    \/ \E id \in 1..MaxFilters : ~data.loaded /\ negateChange(id)
    \/ \E id \in 1..MaxFilters : ~data.loaded /\ removeAdvancedFilter(id)
    \/ ~data.loaded /\ clearAllAdvancedFilters
    \/ \E q \in {"tool_view", "game_engines"} :
          ~data.loaded /\ callAnalyzeQuestion(q)

SpecStartup == Init /\ [][StartupNext]_vars

(* ------------------------- a load that can fail ----------------------- *)
\* the page at startup with any outcome of the two fetches
LoadInit ==
    /\ served \in Outcomes
    /\ alerts = 0
    /\ document \in Documents
    /\ data = [responses |-> Null, schema |-> "null", loaded |-> FALSE]
    /\ demographics = [k \in DemoKeySet |-> {}]
    /\ checkboxes = [k \in DemoKeySet |-> [shown |-> {}, checked |-> {}]]
    /\ filterElements = <<>>
    /\ filterLogic = "AND"
    /\ filteredData = Null
    /\ nextId = 1
    /\ questionSelect = ""
    /\ chart = NoChart
    /\ otherAnswers = <<>>
    /\ analyzed = ""
    /\ lastOp = "init"

\* the events of the page at startup go on after a fetch has failed, the
\* store being as empty as before; the session ends as soon as documents
\* have been stored
SpecLoad == LoadInit /\ [][StartupNext]_vars

(* ---------------- ad-hoc filters over the analysed survey ------------- *)
\* a session over a document of the analysed survey, whose answers are
\* strings, arrays, matrix mappings or missing: loadData, then the events
\* of the filter rows and of the professional_role toggle in any order
FilterValueNext ==
    \/ loadData
    \/ data.loaded /\ addAdvancedFilter
    \/ \E id \in 1..MaxFilters,
          q \in {"", "game_engines", "procedural_tools_experience", "tool_view"} :
          data.loaded /\ onAdvancedFilterQuestionChange(id, q)
    \/ \E id \in 1..MaxFilters,
          v \in {"", "Unity", "CustomEngine", "Godot", "Essential",
                 "Nice to have", "[object Object]"} :
          data.loaded /\ valueChange(id, v)
    \/ \E id \in 1..MaxFilters : data.loaded /\ negateChange(id)
    \/ data.loaded /\ toggleAllDemographic("professional_role")

SpecFilterValues == AnalysisInit /\ [][FilterValueNext]_vars

(* ---------------------- the store and the subset ---------------------- *)
Store == data.responses.rows
Applied == ~filteredData.isNull
Active == getActiveAdvancedFilters(filterElements)
Survivors == DemographicStage(Store, demographics)
InSeq(x, seq) == \E i \in 1..Len(seq) : seq[i] = x

\* C1: after a successful load, in every state the data getCurrentData
\* returns is the subset recomputed from the response store, the accepted
\* sets, the active ad-hoc filters and the combine mode - the state right
\* after load included.
C1_CurrentDataIsRecomputed ==
    data.loaded =>
        getCurrentData = ComputeFiltered(Store, demographics, filterElements, filterLogic)

\* C2: every record of the current filtered subset is a record of the
\* response store, and the subset is no longer than the store.
C2_SubsetOfStore ==
    data.loaded =>
        /\ \A i \in 1..Len(getCurrentData) : InSeq(getCurrentData[i], Store)
        /\ Len(getCurrentData) <= Len(Store)

C2_Witness ==
    /\ Applied
    /\ Len(Active) > 0
    /\ Len(filteredData.rows) > 0
    /\ Len(filteredData.rows) < Len(Store)

\* C3: with every known value of both demographic questions accepted and no
\* active ad-hoc filter, the subset applyAllFilters computes is the whole
\* response store.
C3_AllAcceptedIsFullStore ==
    ( /\ data.loaded
      /\ \A k \in DemoKeySet : demographics[k] = allOptions(Store, k)
      /\ Len(Active) = 0 )
    => ComputeFiltered(Store, demographics, filterElements, filterLogic) = Store

\* the demographic rule as the claim states it, the same for every question
ClaimedDemographicPass(response, demo) ==
    \A k \in DemoKeySet :
        LET value == response[k]
        IN  /\ value.t = "str"
            /\ value.s # ""
            /\ IF Includes(Options(k), value.s)
               THEN value.s \in demo[k]
               ELSE "Other" \in demo[k]

\* C4: a response passes the demographic stage iff for every demographic
\* question its value is non-empty and is an accepted declared option, or is
\* no declared option while "Other" is accepted.
C4_DemographicRule ==
    data.loaded =>
        \A i \in 1..Len(Store) :
            InSeq(Store[i], Survivors) <=> ClaimedDemographicPass(Store[i], demographics)

\* C5: a survivor of the demographic stage is kept in AND mode iff it
\* satisfies every active ad-hoc filter, in OR mode iff it satisfies at least
\* one, and in both modes when no ad-hoc filter is active.
C5_CombineRule ==
    Applied =>
        filteredData.rows =
            SelectSeq(Survivors,
                LAMBDA r :
                    \/ Len(Active) = 0
                    \/ /\ filterLogic = "OR"
                       /\ \E i \in 1..Len(Active) : FilterMatch(r, Active[i])
                    \/ /\ filterLogic # "OR"
                       /\ Len(Active) > 0
                       /\ \A i \in 1..Len(Active) : FilterMatch(r, Active[i]))

C5_Witness ==
    /\ Applied
    /\ filterLogic = "OR"
    /\ Len(Active) = 2
    /\ \E i \in 1..Len(filteredData.rows) :
          /\ FilterMatch(filteredData.rows[i], Active[1])
          /\ ~FilterMatch(filteredData.rows[i], Active[2])

\* the test of one ad-hoc filter as the claim states it
ClaimedSatisfied(response, filter) ==
    LET answer == response[filter.question]
        found == IF answer.t = "arr"
                 THEN filter.value \in {answer.a[j] : j \in 1..Len(answer.a)}
                 ELSE answer = Str(filter.value)
    IN  found # filter.negate

\* C6: one ad-hoc filter is satisfied iff its value is a member of a sequence
\* answer, or equals any other answer; negate inverts that one test, before
\* the tests are combined.
C6_FilterRule ==
    Applied =>
        \A i \in 1..Len(Survivors) :
            InSeq(Survivors[i], filteredData.rows) <=>
                \/ Len(Active) = 0
                \/ /\ filterLogic = "OR"
                   /\ \E j \in 1..Len(Active) : ClaimedSatisfied(Survivors[i], Active[j])
                \/ /\ filterLogic # "OR"
                   /\ \A j \in 1..Len(Active) : ClaimedSatisfied(Survivors[i], Active[j])

C6_Witness ==
    /\ Applied
    /\ Len(Active) = 2
    /\ Active[1].negate /\ ~Active[2].negate
    /\ filterLogic = "AND"
    /\ Len(filteredData.rows) > 0
    /\ Len(filteredData.rows) < Len(Survivors)

\* C7: un-accepting an accepted demographic value and accepting it again, with
\* nothing in between, leaves getCurrentData as it was before the two changes.
C7_ToggleOffOnRestores ==
    data.loaded =>
        \A k \in DemoKeySet : \A option \in checkboxes[k].checked :
            LET off == setAccepted(demographics, k, option, FALSE)
                on == setAccepted(off, k, option, TRUE)
            IN  CurrentDataOf(applyAllFilters(on, filterElements, filterLogic), data)
                    = getCurrentData

C9_NegateTwiceRestores ==
    data.loaded =>
        \A i \in 1..Len(filterElements) :
            ~filterElements[i].negate =>
                LET on == flipNegate(filterElements, i)
                    off == flipNegate(on, i)
                IN  CurrentDataOf(applyAllFilters(demographics, off, filterLogic), data)
                        = getCurrentData

\* C10: toggleAllDemographic empties the accepted set of its question when
\* every known value is accepted and otherwise makes it the full known-value
\* set; and while the accepted set of a demographic question is empty the
\* current filtered subset is empty.
C10_ToggleAll ==
    /\ [][ lastOp' = "toggleAllDemographic" =>
             \E k \in DemoKeySet :
                /\ demographics'[k] =
                      IF allOptions(Store, k) \subseteq demographics[k]
                      THEN {} ELSE allOptions(Store, k)
                /\ \A j \in DemoKeySet \ {k} : demographics'[j] = demographics[j] ]_vars
    /\ [](data.loaded =>
             ((\E k \in DemoKeySet : demographics[k] = {}) => getCurrentData = <<>>))

C10_Witness ==
    /\ lastOp = "toggleAllDemographic"
    /\ demographics["years_experience"] = {}
    /\ demographics["professional_role"] # {}
    /\ Len(Active) > 0
    /\ filteredData.rows = <<>>

\* C11: in every reachable state each demographic accepted set holds only
\* declared options of its question and possibly "Other", and holds "Other"
\* only if some response of the store has a non-empty value for the question
\* that is no declared option - whatever the order of load, check box
\* changes, toggleAllDemographic and clearDemographics.
C11_AcceptedSetsWellFormed ==
    \A k \in DemoKeySet :
        /\ demographics[k] \subseteq
               {Options(k)[i] : i \in 1..Len(Options(k))} \cup {"Other"}
        /\ "Other" \in demographics[k] =>
               \E i \in 1..Len(Store) :
                   /\ Store[i][k].t = "str"
                   /\ Store[i][k].s # ""
                   /\ \A j \in 1..Len(Options(k)) : Options(k)[j] # Store[i][k].s

C11_Witness ==
    /\ lastOp = "toggleAllDemographic"
    /\ Applied
    /\ "Other" \in demographics["professional_role"]
    /\ demographics["years_experience"] = {"0-2 years"}
    /\ checkboxes["years_experience"].shown = {"0-2 years"}

(* --------------------- what the analysis must show -------------------- *)
\* the chart and the other answers are those of question q, analysed from
\* the current data: q is the selected question and was analysed last
Shown(q) == data.loaded /\ questionSelect = q /\ analyzed = q

NonEmptyAnswer(v) == v.t # "undef" /\ v # Str("")
Declared(q, s) == \E j \in 1..Len(Options(q)) : Options(q)[j] = s
OptionSet(q) == {Options(q)[j] : j \in 1..Len(Options(q))}
Labels(counts) == {counts[i].label : i \in 1..Len(counts)}
ValueAt(counts, label) ==
    LET at == {i \in 1..Len(counts) : counts[i].label = label}
    IN  IF at = {} THEN 0 ELSE counts[CHOOSE i \in at : TRUE].value
RECURSIVE SumCounts(_)
SumCounts(counts) ==
    IF counts = <<>> THEN 0 ELSE Head(counts).value + SumCounts(Tail(counts))
OneEntryPerLabel(counts) ==
    \A i, j \in 1..Len(counts) : counts[i].label = counts[j].label => i = j
QuestionsOfType(type) == {q \in SchemaKeys : QuestionType(q) = type}

\* C12: for a single-choice question every response of the subset with a
\* non-empty answer is counted in exactly one bucket, that of its own
\* declared option or "Other", so the counts add up to the number of
\* responses of the subset that have a non-empty answer.
C12_SingleChoiceCounts ==
    \A q \in QuestionsOfType("single_choice") :
        Shown(q) =>
            LET D == getCurrentData
                answered == {i \in 1..Len(D) : NonEmptyAnswer(D[i][q])}
            IN  /\ chart.kind = "pie"
                /\ OneEntryPerLabel(chart.counts)
                /\ Labels(chart.counts) \subseteq OptionSet(q) \cup {"Other"}
                /\ \A o \in OptionSet(q) :
                      ValueAt(chart.counts, o) =
                          Cardinality({i \in answered : D[i][q] = Str(o)})
                /\ ValueAt(chart.counts, "Other") =
                      Cardinality({i \in answered :
                          ~(D[i][q].t = "str" /\ Declared(q, D[i][q].s))})
                /\ SumCounts(chart.counts) = Cardinality(answered)

C12_Witness ==
    /\ Shown("tool_view")
    /\ Len(getCurrentData) = 2
    /\ \E i \in 1..2 : getCurrentData[i]["tool_view"] = Str("")
    /\ ValueAt(chart.counts, "Other") = 1
    /\ SumCounts(chart.counts) = 1

\* C13: for a single-choice question the total handed to the chart along
\* with the counts (its third argument) leaves out the responses whose
\* answer is empty or absent.
C13_TotalLeavesOutEmpty ==
    \A q \in QuestionsOfType("single_choice") :
        Shown(q) =>
            chart.total =
                Cardinality({i \in 1..Len(getCurrentData) :
                                NonEmptyAnswer(getCurrentData[i][q])})

\* the values one answer carries: the items of a sequence, a string itself
AnswerValues(v) ==
    CASE v.t = "arr" -> [j \in 1..Len(v.a) |-> Str(v.a[j])]
      [] v.t = "str" -> <<v>>
      [] OTHER -> <<>>
RECURSIVE AllValues(_, _, _)
AllValues(D, q, i) ==
    IF i > Len(D) THEN <<>>
    ELSE AnswerValues(D[i][q]) \o AllValues(D, q, i + 1)
\* the non-empty values of the subset that are no declared option of q
UndeclaredValues(D, q) ==
    SelectSeq(AllValues(D, q, 1), LAMBDA v : v.s # "" /\ ~Declared(q, v.s))

\* C14: for a single- or multiple-choice question every non-empty answer
\* value that is no declared option is appended to otherAnswers, the "Other"
\* entry of counts is the length of otherAnswers, and counts has an "Other"
\* entry iff otherAnswers is not empty.
C14_OtherAnswers ==
    \A q \in QuestionsOfType("single_choice") \cup QuestionsOfType("multiple_choice") :
        Shown(q) =>
            /\ otherAnswers = UndeclaredValues(getCurrentData, q)
            /\ ValueAt(chart.counts, "Other") = Len(otherAnswers)
            /\ ("Other" \in Labels(chart.counts)) <=> (otherAnswers # <<>>)

C14_Witness ==
    /\ Shown("game_engines")
    /\ Len(getCurrentData) = 2
    /\ otherAnswers = <<Str("CustomEngine")>>
    /\ ValueAt(chart.counts, "Godot") = 1
    /\ "Other" \in Labels(chart.counts)

\* the example: the subset is one response that selects Unity and
\* CustomEngine, and game_engines (options Unity, Godot) is analysed
ExampleResponse ==
    /\ Shown("game_engines")
    /\ Len(getCurrentData) = 1
    /\ getCurrentData[1]["game_engines"] = Arr(<<"Unity", "CustomEngine">>)

\* how often the responses of the subset select option o
Occurrences(D, q, o) ==
    Len(SelectSeq(AllValues(D, q, 1), LAMBDA v : v = Str(o)))

\* C15 as stated: for the example the counts are {Unity: 1, Other: 1} with
\* no other entry and otherAnswers is [CustomEngine].
C15_ExampleAsStated ==
    ExampleResponse =>
        /\ chart.counts = << [label |-> "Unity", value |-> 1],
                             [label |-> "Other", value |-> 1] >>
        /\ otherAnswers = <<Str("CustomEngine")>>

\* C15: for the example the counts are {Unity: 1, Godot: 0, Other: 1} - a
\* declared option nobody selected has the entry 0 - and otherAnswers is
\* [CustomEngine]; every selected item is counted on its own, once per
\* occurrence, without de-duplication.
C15_Example ==
    /\ ExampleResponse =>
          /\ chart.counts = << [label |-> "Unity", value |-> 1],
                               [label |-> "Godot", value |-> 0],
                               [label |-> "Other", value |-> 1] >>
          /\ otherAnswers = <<Str("CustomEngine")>>
    /\ Shown("game_engines") =>
          \A o \in OptionSet("game_engines") :
              ValueAt(chart.counts, o) = Occurrences(getCurrentData, "game_engines", o)

C15_Witness ==
    /\ ExampleResponse
    /\ chart.kind = "bar"
    /\ Applied

\* C16: for a matrix question the table has exactly one cell for every
\* declared (item, scale label) pair, each cell is the number of responses
\* of the subset that map that item to that label (0 when none does), and an
\* entry with an undeclared item or label changes no cell.
C16_MatrixTable ==
    \A q \in QuestionsOfType("matrix") :
        Shown(q) =>
            LET D == getCurrentData
            IN  /\ chart.kind = "stacked"
                /\ Len(chart.table) = Len(Items(q))
                /\ \A a \in 1..Len(chart.table) :
                      /\ chart.table[a].item = Items(q)[a]
                      /\ Len(chart.table[a].cells) = Len(Scale(q))
                      /\ \A b \in 1..Len(chart.table[a].cells) :
                            /\ chart.table[a].cells[b].label = Scale(q)[b]
                            /\ chart.table[a].cells[b].value =
                                  Cardinality({i \in 1..Len(D) :
                                      /\ D[i][q].t = "obj"
                                      /\ <<Items(q)[a], Scale(q)[b]>> \in D[i][q].m})

C16_Witness ==
    /\ Shown("procedural_tools_experience")
    /\ chart.kind = "stacked"
    /\ \E i \in 1..Len(getCurrentData) :
          <<"Houdini", "Expert">> \in getCurrentData[i]["procedural_tools_experience"].m
    /\ chart.table[1].cells[1].value = 1

\* a direct call of analyzeQuestion for q has just returned
Called(q) == data.loaded /\ lastOp = "analyzeQuestion" /\ analyzed = q

TextAnswers(D, q) ==
    LET answers == [i \in 1..Len(D) |-> D[i][q]]
        kept == SelectSeq(answers, LAMBDA v : v.t = "str" /\ v.s \notin {"", " "})
    IN  [i \in 1..Len(kept) |-> kept[i].s]

\* C18 as stated: for an open-text question the aggregate is the list of the
\* answers of the subset that are strings with a non-whitespace character, in
\* response order, one per response, each text unmodified.
C18_TextsUnmodified ==
    \A q \in QuestionsOfType("open_text") :
        Shown(q) => chart.texts = TextAnswers(getCurrentData, q)

\* C18: for an open-text question the aggregate is the list of the answers of
\* the subset that are strings with a non-whitespace character, in response
\* order, one per response, each text with the white space around it
\* trimmed off and otherwise as it is.
C18_TextsTrimmed ==
    \A q \in QuestionsOfType("open_text") :
        Shown(q) =>
            /\ chart.kind = "text"
            /\ Len(chart.texts) = Len(TextAnswers(getCurrentData, q))
            /\ \A i \in 1..Len(chart.texts) :
                  chart.texts[i] = Trim(TextAnswers(getCurrentData, q)[i])

C18_Witness ==
    /\ Shown("most_important_problem")
    /\ Len(getCurrentData) = 2
    /\ chart.texts = <<"scripting">>

\* C19: a call of analyzeQuestion with a key the schema does not have, or
\* with a question of a type without aggregation (identifier, ranking),
\* leaves no chart and no other answers and changes neither the filter state
\* nor the filtered subset.
C19_UnsupportedIsNeutral ==
    [][ ( /\ lastOp' = "analyzeQuestion"
          /\ data.loaded
          /\ QuestionType(analyzed') \in {"none", "identifier", "ranking"} )
        => /\ chart' = NoChart
           /\ otherAnswers' = <<>>
           /\ UNCHANGED <<data, demographics, checkboxes, filterElements,
                          filterLogic, filteredData, nextId, questionSelect>>
           /\ getCurrentData' = getCurrentData ]_vars

C19_Witness ==
    /\ Called("missing_question")
    /\ questionSelect = "tool_view"
    /\ Applied
    /\ chart = NoChart

\* C20: until both documents are loaded every filter operation
\* (addAdvancedFilter, toggleAllDemographic, a change of the combine mode,
\* applyAllFilters) and every call of analyzeQuestion is rejected: the filter
\* state SurveyApp keeps (accepted sets, filter rows, nextId, filteredData) is
\* as at construction and nothing is shown, whatever the user does while the
\* load is pending.
C20_RejectedBeforeLoad ==
    ~data.loaded =>
        /\ \A k \in DemoKeySet : demographics[k] = {}
        /\ filterElements = <<>>
        /\ nextId = 1
        /\ filteredData.isNull
        /\ chart = NoChart
        /\ otherAnswers = <<>>

(* --------------------------- a failed load ---------------------------- *)
\* C21: when loading fails - a document that cannot be fetched or parsed,
\* or documents that validateData rejects - the data is not marked loaded,
\* no filtered subset is ever computed, and the failure is reported once
\* and the load is not retried (never a second alert).
C21_FailedLoadNotLoaded ==
    /\ alerts <= 1
    /\ (alerts = 1 => ~data.loaded /\ filteredData = Null)

(* ------------------- removing a filter that is not there -------------- *)
\* C22: a removeAdvancedFilter call that finds no row for its id (the id
\* was never given, or its row is already removed, as in the second of two
\* removals of the same filter) changes nothing: the rows, the accepted
\* sets and their check boxes, the filtered subset and what is displayed
\* stay as they are; and no removeAdvancedFilter call touches the accepted
\* sets.
C22_RemoveMissingIsNoOp ==
    [][ lastOp' = "removeAdvancedFilter" =>
          /\ demographics' = demographics
          /\ (RowIds' = RowIds =>
                UNCHANGED <<filterElements, checkboxes, filteredData, nextId,
                            filterLogic, chart, otherAnswers>>) ]_vars

\* after load, before any filter was applied, a row exists and a
\* removeAdvancedFilter call for another id has just returned
C22_Witness ==
    /\ data.loaded
    /\ lastOp = "removeAdvancedFilter"
    /\ Len(filterElements) = 1
    /\ filteredData = Null

(* ------------------- recomputation after a mutation ------------------- *)
\* C23: after load, every step that changes the filter state (an accepted
\* set, the list of ad-hoc filter rows or one of their fields, the combine
\* mode) leaves the filtered subset recomputed from the new filter state
\* and, when a question is selected, the display showing the analysis of
\* that question over the new subset.
C23_MutationRecomputes ==
    [][ ( /\ data.loaded
          /\ <<demographics, filterElements, filterLogic>>' #
                <<demographics, filterElements, filterLogic>> ) =>
        /\ filteredData' = Array(ComputeFiltered(data.responses.rows',
                               demographics', filterElements', filterLogic'))
        /\ (questionSelect' # "" =>
              [chart |-> chart', otherAnswers |-> otherAnswers'] =
                 analyzeQuestion(questionSelect', filteredData'.rows)) ]_vars

OfferedFilter ==
    SelectSeq(QuestionOrder,
           LAMBDA key : /\ key \notin DemoKeySet
                        /\ QuestionType(key) # "open_text"
                        /\ QuestionType(key) # "identifier")
OfferedAnalysis ==
    SelectSeq(QuestionOrder,
           LAMBDA key : /\ QuestionType(key) # "identifier"
                        /\ QuestionType(key) \in {"single_choice",
                              "multiple_choice", "matrix", "open_text"})

\* C25: the questions a filter row offers are, in schema order, exactly the
\* schema questions that are neither a demographic question nor free text
\* nor the identifier; the questions offered for analysis are, in schema
\* order, exactly those of type single choice, multiple choice, matrix or
\* open text, the identifier excluded; and only an offered question is
\* ever the question of a row or the selected question.
C25_OfferedQuestions ==
    data.loaded =>
        /\ \A i \in 1..Len(filterElements) :
              /\ filterElements[i].questions = OfferedFilter
              /\ filterElements[i].question # "" =>
                    InSeq(filterElements[i].question, OfferedFilter)
        /\ AnalysisQuestions = OfferedAnalysis
        /\ questionSelect # "" => InSeq(questionSelect, OfferedAnalysis)

\* a row added after load offers the multiple-choice, matrix, single-choice
\* and ranking questions, and one of them is chosen
C25_Witness ==
    /\ data.loaded
    /\ Len(filterElements) >= 1
    /\ filterElements[1].questions =
          <<"game_engines", "procedural_tools_experience", "tool_view",
            "node_tool_features">>
    /\ filterElements[1].question = "tool_view"

(* ------------------------- incomplete filters ------------------------- *)
\* a row with both selects chosen, the rows without the incomplete ones,
\* and the steps that add a row or change the question of row i
Complete(f) == f.question # "" /\ f.value # ""
CompleteRows == SelectSeq(filterElements, Complete)
AddsRow == Len(filterElements') = Len(filterElements) + 1
ResetsQuestion(i) ==
    /\ Len(filterElements') = Len(filterElements)
    /\ i \in 1..Len(filterElements)
    /\ filterElements'[i].question # filterElements[i].question

NoAnswer(value) ==
    \/ value.t = "undef"
    \/ value.t = "str" /\ value.s = ""
    \/ value.t = "arr" /\ Len(value.a) = 0

SubsetAnd == ComputeFiltered(Store, demographics, filterElements, "AND")
SubsetOr == ComputeFiltered(Store, demographics, filterElements, "OR")

\* C28: for the same response store, accepted sets and ad-hoc filters, with
\* at least one filter active, every response of the subset computed in AND
\* mode is in the subset computed in OR mode; the subset applyAllFilters
\* has stored is the one of the current mode.
C28_OrContainsAnd ==
    ( data.loaded /\ Len(Active) >= 1 ) =>
        /\ \A j \in 1..Len(SubsetAnd) : InSeq(SubsetAnd[j], SubsetOr)
        /\ Applied =>
              filteredData.rows =
                 IF filterLogic = "OR" THEN SubsetOr ELSE SubsetAnd

\* two active filters whose AND subset is not empty and smaller than their
\* OR subset
C28_Witness ==
    /\ data.loaded /\ Applied
    /\ Len(Active) = 2
    /\ Len(SubsetAnd) >= 1
    /\ Len(SubsetAnd) < Len(SubsetOr)

(* ----------------------- the two clear operations --------------------- *)
\* C29: after load, clearAllAdvancedFilters leaves no ad-hoc filter row and
\* both accepted sets as they were, and the filtered subset is then the
\* result of the demographic stage alone; clearDemographics makes each
\* accepted set the full set of values its check boxes list (the schema's
\* options, and "Other" when the store holds a non-schema value), checks
\* every box and leaves the ad-hoc filter rows and the combine mode as they
\* were.
C29_ClearOperations ==
    [][ data.loaded =>
        /\ lastOp' = "clearAllAdvancedFilters" =>
              /\ filterElements' = <<>>
              /\ demographics' = demographics
              /\ checkboxes' = checkboxes
              /\ filteredData' = Array(DemographicStage(Store, demographics))
        /\ lastOp' = "clearDemographics" =>
              /\ \A k \in DemoKeySet :
                    /\ demographics'[k] = checkboxes[k].shown
                    /\ demographics'[k] = allOptions(Store, k)
                    /\ checkboxes'[k].checked = checkboxes[k].shown
              /\ filterElements' = filterElements
              /\ filterLogic' = filterLogic ]_vars

\* clearAllAdvancedFilters has just removed the rows while a check box was
\* unchecked, and the subset is the demographic stage's, not the store
C29_Witness ==
    /\ data.loaded
    /\ lastOp = "clearAllAdvancedFilters"
    /\ nextId > 1
    /\ filterElements = <<>>
    /\ \E k \in DemoKeySet : demographics[k] # checkboxes[k].shown
    /\ filteredData.rows = Survivors
    /\ Len(Survivors) < Len(Store)

(* ------------------- "Other": counted and admitted -------------------- *)
\* the responses the demographic test of question key admits when "Other"
\* is the only accepted value
AdmittedAsOther(key) ==
    LET only == [k \in DemoKeySet |-> {"Other"}]
    IN  SelectSeq(Store,
           LAMBDA r : IF key = "professional_role"
                      THEN roleMatch(r, only) ELSE expMatch(r, only))

\* C30: for each demographic question, the responses populateDemographicOptions
\* counts under "Other" are the responses applyAllFilters admits for that
\* question when "Other" is the only accepted value, so the count shown
\* equals the number admitted.
C30_OtherCountIsAdmitted ==
    data.loaded =>
        \A key \in DemoKeySet :
            /\ otherCount(Store, key) = Len(AdmittedAsOther(key))
            /\ \A j \in 1..Len(Store) :
                  IsOtherResponse(Store[j], key) <=>
                     InSeq(Store[j], AdmittedAsOther(key))

====
